---- MODULE Spec2Model ----
(***************************************************************************)
(* Email Productivity Agent: the Streamlit application (app.py), the       *)
(* prompt manager (src/prompt_manager.py) and the collaborators they call  *)
(* (Storage, LLMHandler, EmailProcessor), as a state machine.              *)
(*                                                                         *)
(* Persisted state is the four JSON documents of the Record Store: inbox,  *)
(* processed results, prompt templates, drafts.  Session state is what     *)
(* app.py keeps in st.session_state.                                       *)
(***************************************************************************)
EXTENDS Integers, Sequences, FiniteSets, TLC

VARIABLES
    api_key_set,    \* st.session_state.api_key_set
    handlers,       \* TRUE once llm, prompt_manager and email_processor are in session state
    inbox,          \* inbox document: sequence of emails
    processed,      \* processed-results document: email id -> result
    prompts,        \* prompt-templates document: task type -> template
    drafts,         \* drafts document: sequence of drafts
    pc,             \* position of the script run that is processing emails
    last            \* the operation that was performed last, with its arguments and result

vars == <<api_key_set, handlers, inbox, processed, prompts, drafts, pc, last>>

(***************************************************************************)
(* Bounds of the model.                                                    *)
(***************************************************************************)
MaxDrafts == 2      \* drafts kept in the drafts document

(***************************************************************************)
(* Prompt catalog.                                                         *)
(***************************************************************************)
PromptTypes == {"categorization", "action_item", "auto_reply", "summary"}

\* The built-in templates: four distinct texts, one per task type.
default_prompts ==
    [t \in PromptTypes |->
        CASE t = "categorization" -> "Analyze the email and categorize it"
          [] t = "action_item"    -> "Extract all action items and tasks"
          [] t = "auto_reply"     -> "Generate a professional email reply"
          [] t = "summary"        -> "Provide a concise 2-3 sentence summary"]

\* A prompt-templates document with no template in it (file absent or {}).
NoPrompts == [t \in {} |-> ""]

\* Texts a user types into a prompt text area.
PromptTexts == {"custom prompt"}

\* Storage.load_prompts / Storage.save_prompts: the document is read and
\* written whole.
load_prompts(doc) == doc

save_prompts(doc, p) == p

\* Storage.update_prompt: load the map, set one key, save the map.
storage_update_prompt(doc, t, text) ==
    LET p == load_prompts(doc)
    IN  save_prompts(doc, [k \in (DOMAIN p) \cup {t} |-> IF k = t THEN text ELSE p[k]])

get_all_prompts_AlwaysSeed(doc) ==
    [ret |-> default_prompts, doc |-> save_prompts(doc, default_prompts)]

\* PromptManager.get_all_prompts: the returned map and the document afterwards.
get_all_prompts(doc) ==
    LET p == load_prompts(doc)
    IN  IF DOMAIN p = {}
        THEN [ret |-> default_prompts, doc |-> save_prompts(doc, default_prompts)]
        ELSE [ret |-> p, doc |-> doc]

\* PromptManager.update_prompt
update_prompt(doc, t, text) == storage_update_prompt(doc, t, text)

reset_to_defaults_KeepEdited(doc) ==
    save_prompts(doc, [t \in PromptTypes |->
        IF t \in DOMAIN doc THEN doc[t] ELSE default_prompts[t]])

\* PromptManager.reset_to_defaults
reset_to_defaults(doc) == save_prompts(doc, default_prompts)

NoOp == [op |-> "none"]

(***************************************************************************)
(* Record Store: inbox, processed results.                                 *)
(***************************************************************************)
Email1 == [id |-> "e1", sender |-> "a@x.com", subject |-> "Meeting",
           body |-> "Can we meet Friday?", timestamp |-> "2024-01-01"]
Email2 == [id |-> "e2", sender |-> "b@y.com", subject |-> "Sale",
           body |-> "50% off today", timestamp |-> "2024-01-02"]

\* A processed-results document with no entry in it.
NoResults == [e \in {} |-> ""]

load_inbox(doc) == doc

load_processed_emails(doc) == doc

\* Storage.save_processed_email: the entry of `id` is replaced whole.
save_processed_email(doc, id, result) ==
    [k \in (DOMAIN doc) \cup {id} |-> IF k = id THEN result ELSE doc[k]]

\* dict.get(key, default)
Get(d, key, default) == IF key \in DOMAIN d THEN d[key] ELSE default

\* Python truthiness of a dict
Truthy(d) == DOMAIN d # {}

EmptyDict == [k \in {} |-> ""]

(***************************************************************************)
(* LLM Gateway: one call returns some text or fails with GatewayError.     *)
(***************************************************************************)
GatewayError == "GatewayError"

Categories == {"Important", "Newsletter", "Spam", "To-Do", "Update"}

TasksJson == "{\"tasks\": [{\"task\": \"Confirm the meeting\", \"deadline\": \"Friday\", \"priority\": \"High\"}]}"
NoTasksJson == "{\"tasks\": []}"
ReplyJson == "{\"subject\": \"Re: Meeting\", \"body\": \"Friday works for me.\"}"

\* What the Gateway may answer to the call of each task type.
GatewayReplies(t) ==
    CASE t = "categorization" -> {"Important", "This email is important."}
      [] t = "action_item"    -> {TasksJson, "Here are the tasks I found"}
      [] t = "auto_reply"     -> {ReplyJson}
      [] t = "summary"        -> {"Asks to meet on Friday."}

GatewayOutcomes(t) == GatewayReplies(t) \cup {GatewayError}

ChatReplies == {"It is a meeting request."}

\* json.loads: the texts that are well-formed JSON, and their values.
IsJson(text) == text \in {TasksJson, NoTasksJson, ReplyJson}

JsonValue(text) ==
    CASE text = TasksJson ->
            [tasks |-> <<[task |-> "Confirm the meeting", deadline |-> "Friday",
                          priority |-> "High"]>>]
      [] text = NoTasksJson -> [tasks |-> <<>>]
      [] text = ReplyJson -> [subject |-> "Re: Meeting", body |-> "Friday works for me."]

(***************************************************************************)
(* Email Pipeline.                                                         *)
(***************************************************************************)
parse_category(text) == IF text \in Categories THEN text ELSE "Unprocessed"

parse_action_items_KeepsRawText(text) ==
    IF IsJson(text) /\ "tasks" \in DOMAIN JsonValue(text)
    THEN JsonValue(text)
    ELSE [raw_response |-> text]

parse_action_items(text) ==
    IF IsJson(text) /\ "tasks" \in DOMAIN JsonValue(text)
    THEN JsonValue(text)
    ELSE [tasks |-> <<>>]

parse_reply(text) ==
    IF IsJson(text) /\ {"subject", "body"} \subseteq DOMAIN JsonValue(text)
    THEN JsonValue(text)
    ELSE [subject |-> "", body |-> ""]

\* The field of a processed result that holds the result of a task type.
ResultKey(t) ==
    CASE t = "categorization" -> "category"
      [] t = "action_item"    -> "action_items"
      [] t = "auto_reply"     -> "suggested_reply"
      [] t = "summary"        -> "summary"

ResultKeys == {ResultKey(t) : t \in PromptTypes}

\* The task types whose result a run stores, given the Gateway's outcome of
\* each of the four calls: a failed call leaves its field out.
StoredTasks(out) == {t \in PromptTypes : out[t] # GatewayError}

\* EmailProcessor.process_single_email: the result built from the Gateway's
\* outcome of each of the four calls.
process_single_email(email, out) ==
    [k \in {ResultKey(t) : t \in StoredTasks(out)} |->
        CASE k = "category"        -> parse_category(out["categorization"])
          [] k = "action_items"    -> parse_action_items(out["action_item"])
          [] k = "suggested_reply" -> parse_reply(out["auto_reply"])
          [] k = "summary"         -> out["summary"]]

\* All combinations of Gateway outcomes for the four calls of one run.
RunOutcomes == {out \in [PromptTypes -> UNION {GatewayOutcomes(t) : t \in PromptTypes}] :
                   \A t \in PromptTypes : out[t] \in GatewayOutcomes(t)}

\* What a completed run persists: the entry of the email, replaced whole.
PersistOnComplete(doc, email, out) ==
    save_processed_email(doc, email.id, process_single_email(email, out))

(***************************************************************************)
(* Inbox Viewer: what the page shows of an email.                          *)
(***************************************************************************)
DisplayCategory_NoDefault(doc, email) ==
    Get(Get(load_processed_emails(doc), email.id, EmptyDict), "category", "")

\* The category badge of an email.
DisplayCategory(doc, email) ==
    Get(Get(load_processed_emails(doc), email.id, EmptyDict), "category", "Unprocessed")

\* The action items listed under an email.
DisplayTasks(doc, email) ==
    Get(Get(Get(load_processed_emails(doc), email.id, EmptyDict),
            "action_items", EmptyDict), "tasks", <<>>)

(***************************************************************************)
(* Record Store: drafts.                                                   *)
(***************************************************************************)
load_drafts(doc) == doc

DraftIds(doc) == {doc[i].id : i \in 1..Len(doc)}

\* The id given to a draft saved without one: the first "draft_<n>" that no
\* stored draft has.
FreshDraftId(doc) ==
    LET n == CHOOSE k \in 1..(Len(doc) + 1) :
                 /\ ("draft_" \o ToString(k)) \notin DraftIds(doc)
                 /\ \A j \in 1..(k - 1) : ("draft_" \o ToString(j)) \in DraftIds(doc)
    IN  "draft_" \o ToString(n)

WithId(doc, draft) ==
    IF "id" \in DOMAIN draft
    THEN draft
    ELSE [k \in (DOMAIN draft) \cup {"id"} |->
             IF k = "id" THEN FreshDraftId(doc) ELSE draft[k]]

\* Storage.save_draft: a draft whose id is stored replaces that draft, any
\* other draft is added at the end.
save_draft(doc, draft) ==
    LET d == WithId(doc, draft)
    IN  IF d.id \in DraftIds(doc)
        THEN [i \in 1..Len(doc) |-> IF doc[i].id = d.id THEN d ELSE doc[i]]
        ELSE Append(doc, d)

\* Storage.delete_draft
delete_draft(doc, id) ==
    LET Keep(d) == d.id # id
    IN  SelectSeq(doc, Keep)

(***************************************************************************)
(* The application: session state and the handlers of app.py.  A handler   *)
(* runs when its button is clicked on its page; the page chosen in the     *)
(* sidebar radio (nav_option) is an input of the click.                    *)
(***************************************************************************)
Pages == {"Inbox Viewer", "Prompt Manager", "Email Agent Chat", "Draft Manager"}

Idle == [kind |-> "idle", i |-> 0]

\* datetime.now().isoformat(): the clock is not part of the model.
Now == "now"

LLMPagesShown_HandlersBuilt == handlers

\* The gate of the main content area: the pages, and with them every
\* LLM-dependent handler, are rendered only when the API key is set.
LLMPagesShown == api_key_set

\* A script run renders the chosen page; the Prompt Manager page loads the
\* prompts, which seeds an empty prompt document.
Render(shown, nav_option, doc) ==
    IF shown /\ nav_option = "Prompt Manager" THEN get_all_prompts(doc).doc ELSE doc

\* initialize_session_state, with and without a usable GEMINI_API_KEY.
Init ==
    /\ api_key_set \in BOOLEAN
    /\ handlers = api_key_set
    /\ inbox = <<Email1>>
    /\ processed = NoResults
    /\ prompts = NoPrompts
    /\ drafts = <<>>
    /\ pc = Idle
    /\ last = NoOp

\* "Set API Key": the key typed in (possibly nothing) and whether the
\* handlers could be constructed with it; on success the script reruns.
SetAPIKey ==
    /\ pc = Idle
    /\ ~api_key_set
    /\ \E api_key_input \in {"", "key"}, constructed \in BOOLEAN, nav_option \in Pages :
        IF api_key_input # "" /\ constructed
        THEN /\ handlers' = TRUE
             /\ api_key_set' = TRUE
             /\ prompts' = Render(TRUE, nav_option, prompts)
        ELSE UNCHANGED <<handlers, api_key_set, prompts>>
    /\ last' = NoOp
    /\ UNCHANGED <<inbox, processed, drafts, pc>>

\* "Change API Key"
ChangeAPIKey ==
    /\ pc = Idle
    /\ api_key_set
    /\ api_key_set' = FALSE
    /\ last' = NoOp
    /\ UNCHANGED <<handlers, inbox, processed, prompts, drafts, pc>>

\* The sidebar radio: another page is chosen and rendered.
Navigate ==
    /\ pc = Idle
    /\ \E nav_option \in Pages : prompts' = Render(LLMPagesShown, nav_option, prompts)
    /\ last' = NoOp
    /\ UNCHANGED <<api_key_set, handlers, inbox, processed, drafts, pc>>

LoopNext_SkipLast(i, n) ==
    IF i < n - 1 THEN [kind |-> "process_all", i |-> i + 1] ELSE Idle

LoopNext_StopAfterFirst(i, n) ==
    IF i = 0 /\ n > 0 THEN [kind |-> "process_all", i |-> 1] ELSE Idle

\* The loop of "Process All Emails": after email i of n, the next email or
\* the end of the handler.
LoopNext(i, n) ==
    IF i < n THEN [kind |-> "process_all", i |-> i + 1] ELSE Idle

ProcessAllEmails_ClearsFirst ==
    /\ api_key_set
    /\ pc = Idle
    /\ prompts' = get_all_prompts(prompts).doc
    /\ pc' = LoopNext(0, Len(load_inbox(inbox)))
    /\ processed' = NoResults
    /\ last' = NoOp
    /\ UNCHANGED <<api_key_set, handlers, inbox, drafts>>

\* "Process All Emails": the inbox and the prompts are loaded, then the
\* loop starts on the first email.
ProcessAllEmails ==
    /\ LLMPagesShown
    /\ pc = Idle
    /\ prompts' = get_all_prompts(prompts).doc
    /\ pc' = LoopNext(0, Len(load_inbox(inbox)))
    /\ last' = NoOp
    /\ UNCHANGED <<api_key_set, handlers, inbox, processed, drafts>>

ProcessNext_KeyedByPosition ==
    /\ pc.kind = "process_all"
    /\ \E out \in RunOutcomes :
        /\ processed' = save_processed_email(processed, ToString(pc.i),
                            process_single_email(inbox[pc.i], out))
        /\ last' = [op |-> "process_single_email", id |-> inbox[pc.i].id, out |-> out]
    /\ pc' = LoopNext(pc.i, Len(inbox))
    /\ UNCHANGED <<api_key_set, handlers, inbox, prompts, drafts>>

\* One turn of the loop: process_single_email on email pc.i completes and
\* the loop moves on.
ProcessNext ==
    /\ pc.kind = "process_all"
    /\ \E out \in RunOutcomes :
        /\ processed' = PersistOnComplete(processed, inbox[pc.i], out)
        /\ last' = [op |-> "process_single_email", id |-> inbox[pc.i].id, out |-> out]
    /\ pc' = LoopNext(pc.i, Len(inbox))
    /\ UNCHANGED <<api_key_set, handlers, inbox, prompts, drafts>>

\* What "Clear Processed" saves as the processed-results document.
ClearedResults(doc) == NoResults

\* "Clear Processed"
ClearProcessed ==
    /\ LLMPagesShown
    /\ pc = Idle
    /\ processed' = ClearedResults(processed)
    /\ last' = [op |-> "clear_processed"]
    /\ UNCHANGED <<api_key_set, handlers, inbox, prompts, drafts, pc>>

Reprocess_DropsOld ==
    /\ api_key_set
    /\ pc = Idle
    /\ \E i \in 1..Len(inbox) :
        /\ pc' = [kind |-> "reprocess", i |-> i]
        /\ processed' = [k \in (DOMAIN processed) \ {inbox[i].id} |-> processed[k]]
    /\ prompts' = get_all_prompts(prompts).doc
    /\ last' = NoOp
    /\ UNCHANGED <<api_key_set, handlers, inbox, drafts>>

\* "Reprocess" of one email: the prompts are loaded and reprocess_email
\* starts on the email.
Reprocess ==
    /\ LLMPagesShown
    /\ pc = Idle
    /\ \E i \in 1..Len(inbox) : pc' = [kind |-> "reprocess", i |-> i]
    /\ prompts' = get_all_prompts(prompts).doc
    /\ last' = NoOp
    /\ UNCHANGED <<api_key_set, handlers, inbox, processed, drafts>>

ReprocessDone_Merges ==
    /\ pc.kind = "reprocess"
    /\ \E out \in RunOutcomes :
        LET id == inbox[pc.i].id
            old == Get(processed, id, EmptyDict)
            new == process_single_email(inbox[pc.i], out)
        IN  /\ processed' = save_processed_email(processed, id,
                   [k \in (DOMAIN old) \cup (DOMAIN new) |->
                       IF k \in DOMAIN new THEN new[k] ELSE old[k]])
            /\ last' = [op |-> "reprocess_email", id |-> id, out |-> out]
    /\ pc' = Idle
    /\ UNCHANGED <<api_key_set, handlers, inbox, prompts, drafts>>

\* reprocess_email completes.
ReprocessDone ==
    /\ pc.kind = "reprocess"
    /\ \E out \in RunOutcomes :
        /\ processed' = PersistOnComplete(processed, inbox[pc.i], out)
        /\ last' = [op |-> "reprocess_email", id |-> inbox[pc.i].id, out |-> out]
    /\ pc' = Idle
    /\ UNCHANGED <<api_key_set, handlers, inbox, prompts, drafts>>

\* The script run that is processing emails is stopped before it completes
\* (the process dies, or the user abandons the run).
Interrupt ==
    /\ pc # Idle
    /\ pc' = Idle
    /\ last' = [op |-> "interrupt", id |-> inbox[pc.i].id]
    /\ UNCHANGED <<api_key_set, handlers, inbox, processed, prompts, drafts>>

ReplyDraft_NoId(email, reply) ==
    [to |-> email.sender, subject |-> reply.subject,
     body |-> reply.body, reply_to |-> email.id, created_at |-> Now]

\* The draft that "Draft Reply" builds from an email and its suggested reply.
ReplyDraft(email, reply) ==
    [id |-> "draft_" \o email.id, to |-> email.sender, subject |-> reply.subject,
     body |-> reply.body, reply_to |-> email.id, created_at |-> Now]

\* "Draft Reply" of one email: saves a draft when the email has a suggested
\* reply, and does nothing otherwise.
DraftReply ==
    /\ LLMPagesShown
    /\ pc = Idle
    /\ \E i \in 1..Len(inbox) :
        LET email == inbox[i]
            result == Get(load_processed_emails(processed), email.id, EmptyDict)
            reply == Get(result, "suggested_reply", EmptyDict)
        IN  IF Truthy(reply)
            THEN /\ Len(save_draft(drafts, ReplyDraft(email, reply))) <= MaxDrafts
                 /\ drafts' = save_draft(drafts, ReplyDraft(email, reply))
                 /\ last' = [op |-> "save_draft", before |-> drafts,
                             id |-> "draft_" \o email.id, to |-> email.sender,
                             subject |-> reply.subject, body |-> reply.body]
            ELSE /\ drafts' = drafts
                 /\ last' = NoOp
    /\ UNCHANGED <<api_key_set, handlers, inbox, processed, prompts, pc>>

\* The four "Save ... Prompt" buttons of the Prompt Manager page, which
\* has loaded the prompts before the button is handled.
SavePrompt ==
    /\ LLMPagesShown
    /\ pc = Idle
    /\ \E t \in PromptTypes, text \in PromptTexts :
         prompts' = update_prompt(Render(LLMPagesShown, "Prompt Manager", prompts), t, text)
    /\ last' = NoOp
    /\ UNCHANGED <<api_key_set, handlers, inbox, processed, drafts, pc>>

\* "Reset All to Defaults", and the rerun that follows it.
ResetAllToDefaults ==
    /\ LLMPagesShown
    /\ pc = Idle
    /\ prompts' = Render(LLMPagesShown, "Prompt Manager",
                    reset_to_defaults(Render(LLMPagesShown, "Prompt Manager", prompts)))
    /\ last' = NoOp
    /\ UNCHANGED <<api_key_set, handlers, inbox, processed, drafts, pc>>

\* "Send" of the chat page: chat_with_context is called with the question;
\* the call returns text or fails.  The chat history is display state only.
Send ==
    /\ LLMPagesShown
    /\ pc = Idle
    /\ \E user_query \in {"", "What is this email about?"},
          response \in ChatReplies \cup {GatewayError} :
        IF user_query = ""
        THEN last' = NoOp
        ELSE last' = [op |-> "chat_with_context", response |-> response]
    /\ UNCHANGED <<api_key_set, handlers, inbox, processed, prompts, drafts, pc>>

NewDraft_SubjectAsBody(to, subject, body) ==
    [to |-> to, subject |-> subject, body |-> subject, created_at |-> Now]

\* The draft that "Save Draft" builds from the form: it has no id.
NewDraft(to, subject, body) ==
    [to |-> to, subject |-> subject, body |-> body, created_at |-> Now]

\* What the user may type into the new-draft form and the edit area.
FormTo == {"", "bob@z.com"}
FormSubjects == {"", "Lunch"}
FormBodies == {"", "See you on Monday."}
EditedBodies == {"See you on Monday."}

\* "Save Draft" of the new-draft form.
SaveDraft ==
    /\ LLMPagesShown
    /\ pc = Idle
    /\ \E new_to \in FormTo, new_subject \in FormSubjects, new_body \in FormBodies :
        IF new_to # "" /\ new_subject # "" /\ new_body # ""
        THEN /\ Len(drafts) < MaxDrafts
             /\ drafts' = save_draft(drafts, NewDraft(new_to, new_subject, new_body))
             /\ last' = [op |-> "save_draft", before |-> drafts,
                         to |-> new_to, subject |-> new_subject, body |-> new_body]
        ELSE /\ drafts' = drafts
             /\ last' = NoOp
    /\ UNCHANGED <<api_key_set, handlers, inbox, processed, prompts, pc>>

\* "Update" of one listed draft: its body becomes the text of the edit area.
UpdateDraft ==
    /\ LLMPagesShown
    /\ pc = Idle
    /\ \E i \in 1..Len(load_drafts(drafts)) :
         \E edited_body \in EditedBodies \cup {drafts[i].body} :
           LET draft == [drafts[i] EXCEPT !.body = edited_body]
           IN  /\ drafts' = save_draft(drafts, draft)
               /\ last' = [op |-> "save_draft", before |-> drafts, id |-> draft.id,
                           to |-> draft.to, subject |-> draft.subject,
                           body |-> edited_body]
    /\ UNCHANGED <<api_key_set, handlers, inbox, processed, prompts, pc>>

\* "Delete" of one listed draft, and the rerun that follows it.
DeleteDraft ==
    /\ LLMPagesShown
    /\ pc = Idle
    /\ \E i \in 1..Len(load_drafts(drafts)) :
        /\ drafts' = delete_draft(drafts, drafts[i].id)
        /\ last' = [op |-> "delete_draft", before |-> drafts, id |-> drafts[i].id]
    /\ UNCHANGED <<api_key_set, handlers, inbox, processed, prompts, pc>>

\* Every user action the application offers.
Next ==
    \/ SetAPIKey
    \/ ChangeAPIKey
    \/ Navigate
    \/ ProcessAllEmails
    \/ ProcessNext
    \/ ClearProcessed
    \/ Reprocess
    \/ ReprocessDone
    \/ Interrupt
    \/ DraftReply
    \/ SavePrompt
    \/ ResetAllToDefaults
    \/ Send
    \/ SaveDraft
    \/ UpdateDraft
    \/ DeleteDraft

Spec == Init /\ [][Next]_vars

(***************************************************************************)
(* The Inbox Viewer alone, on an inbox of two emails.                      *)
(***************************************************************************)
InitInbox ==
    /\ api_key_set = TRUE
    /\ handlers = TRUE
    /\ inbox = <<Email1, Email2>>
    /\ processed = NoResults
    /\ prompts = NoPrompts
    /\ drafts = <<>>
    /\ pc = Idle
    /\ last = NoOp

NextInbox ==
    \/ ProcessAllEmails
    \/ ProcessNext
    \/ ClearProcessed
    \/ Reprocess
    \/ ReprocessDone
    \/ Interrupt

SpecInbox == InitInbox /\ [][NextInbox]_vars

(***************************************************************************)
(* The draft handlers alone, on two emails that have been processed.       *)
(***************************************************************************)
AllAnswered == [t \in PromptTypes |->
    CASE t = "categorization" -> "Important"
      [] t = "action_item"    -> TasksJson
      [] t = "auto_reply"     -> ReplyJson
      [] t = "summary"        -> "Asks to meet on Friday."]

InitDrafts ==
    /\ api_key_set = TRUE
    /\ handlers = TRUE
    /\ inbox = <<Email1, Email2>>
    /\ processed = PersistOnComplete(PersistOnComplete(NoResults, Email1, AllAnswered),
                                     Email2, AllAnswered)
    /\ prompts = default_prompts
    /\ drafts = <<>>
    /\ pc = Idle
    /\ last = NoOp

NextDrafts ==
    \/ DraftReply
    \/ SaveDraft
    \/ UpdateDraft
    \/ DeleteDraft

SpecDrafts == InitDrafts /\ [][NextDrafts]_vars

(***************************************************************************)
(* "Reprocess" and "Draft Reply" alone, on two emails that have been       *)
(* processed: every email has a stored result throughout.                  *)
(***************************************************************************)
NextReprocess ==
    \/ Reprocess
    \/ ReprocessDone
    \/ Interrupt
    \/ DraftReply

SpecReprocess == InitDrafts /\ [][NextReprocess]_vars

(***************************************************************************)
(* The prompt manager called directly, in any order, on an empty prompt    *)
(* document.                                                               *)
(***************************************************************************)
InitCatalog ==
    /\ api_key_set = TRUE
    /\ handlers = TRUE
    /\ inbox = <<Email1>>
    /\ processed = NoResults
    /\ prompts = NoPrompts
    /\ drafts = <<>>
    /\ pc = Idle
    /\ last = [op |-> "none", before |-> NoPrompts]

CatalogFrame == UNCHANGED <<api_key_set, handlers, inbox, processed, drafts, pc>>

\* The call before the last one: its name and the document it found.
Previous == [op |-> last.op, before |-> last.before]

CallGetAllPrompts ==
    /\ prompts' = get_all_prompts(prompts).doc
    /\ last' = [op |-> "get_all_prompts", before |-> prompts, prev |-> Previous,
                ret |-> get_all_prompts(prompts).ret]
    /\ CatalogFrame

CallUpdatePrompt ==
    /\ \E t \in PromptTypes, text \in PromptTexts :
        /\ prompts' = update_prompt(prompts, t, text)
        /\ last' = [op |-> "update_prompt", before |-> prompts, prev |-> Previous,
                    type |-> t, text |-> text]
    /\ CatalogFrame

CallResetToDefaults ==
    /\ prompts' = reset_to_defaults(prompts)
    /\ last' = [op |-> "reset_to_defaults", before |-> prompts, prev |-> Previous]
    /\ CatalogFrame

NextCatalog ==
    \/ CallGetAllPrompts
    \/ CallUpdatePrompt
    \/ CallResetToDefaults

SpecCatalog == InitCatalog /\ [][NextCatalog]_vars

(***************************************************************************)
(* Properties.                                                             *)
(***************************************************************************)
InboxIds == {inbox[i].id : i \in 1..Len(inbox)}

RunOps == {"process_single_email", "reprocess_email"}

NotALabel == "This email is important."
NotJson == "Here are the tasks I found"

\* C1: once process_single_email has returned for an email, the
\* processed-result map has an entry keyed by that email's id, and when
\* "Process All Emails" has finished (its last process_single_email has
\* returned and the handler is over) every inbox email id is a key of the
\* map, whatever the Gateway answered to the four calls of each run.
C1_EveryProcessedEmailHasAnEntry ==
    /\ last.op \in RunOps => last.id \in DOMAIN processed
    /\ (last.op = "process_single_email" /\ pc = Idle) => InboxIds \subseteq DOMAIN processed

\* "Process All Emails" has finished on the two emails, the last of them
\* answered with text that is neither a label nor JSON.
C1_Witness ==
    /\ last.op = "process_single_email"
    /\ pc = Idle
    /\ DOMAIN processed = {"e1", "e2"}
    /\ last.out["categorization"] = NotALabel
    /\ last.out["action_item"] = NotJson

\* C2: the category of every processed result, and the category the inbox
\* shows for every email (also one with no entry or no category), is one
\* of the five categories or "Unprocessed", whatever text the Gateway
\* answered to the categorization call.
C2_CategoryIsEnumerated ==
    /\ \A id \in DOMAIN processed :
         "category" \in DOMAIN processed[id] =>
             processed[id].category \in Categories \cup {"Unprocessed"}
    /\ \A i \in 1..Len(inbox) :
         DisplayCategory(processed, inbox[i]) \in Categories \cup {"Unprocessed"}

\* One email was answered with text that is not a label, the other has no
\* entry.
C2_Witness ==
    /\ last.op \in RunOps
    /\ last.out["categorization"] = NotALabel
    /\ processed[last.id].category = "Unprocessed"
    /\ \E i \in 1..Len(inbox) : inbox[i].id \notin DOMAIN processed

\* C3: reset_to_defaults() followed by get_all_prompts() returns exactly
\* the built-in default map (the four task types, each with its built-in
\* text), from any state of the prompt document.
C3_ResetThenGetAllIsDefaults ==
    (last.op = "get_all_prompts" /\ last.prev.op = "reset_to_defaults") =>
        /\ DOMAIN last.ret = PromptTypes
        /\ \A t \in PromptTypes : last.ret[t] = default_prompts[t]

\* The document that was reset held an edited template.
C3_Witness ==
    /\ last.op = "get_all_prompts"
    /\ last.prev.op = "reset_to_defaults"
    /\ \E t \in DOMAIN last.prev.before : last.prev.before[t] \in PromptTexts

C5_MalformedActionItemsGiveNoTasks ==
    (/\ last.op \in RunOps
     /\ last.out["action_item"] # GatewayError
     /\ ~IsJson(last.out["action_item"])) =>
        /\ last.id \in DOMAIN processed
        /\ "action_items" \in DOMAIN processed[last.id]
        /\ "tasks" \in DOMAIN processed[last.id].action_items
        /\ processed[last.id].action_items.tasks = <<>>
        /\ \A i \in 1..Len(inbox) :
              inbox[i].id = last.id => DisplayTasks(processed, inbox[i]) = <<>>

\* A run whose action-item answer was not JSON has completed, the other
\* three calls having been answered.
C5_Witness ==
    /\ last.op = "process_single_email"
    /\ last.out["action_item"] = NotJson
    /\ DOMAIN processed[last.id] = ResultKeys
    /\ processed[last.id].action_items.tasks = <<>>
    /\ processed[last.id].category = "Important"

\* C6: in one run the result of a task call is stored exactly when that
\* call did not fail, whichever of the other calls failed, and the stored
\* summary is the text answered; after a run of the "Process All Emails"
\* loop the loop is on the next email, or over after the last one.
C6_TaskCallsAreIndependent ==
    last.op \in RunOps =>
        /\ last.id \in DOMAIN processed
        /\ \A t \in PromptTypes :
              (ResultKey(t) \in DOMAIN processed[last.id]) <=> (last.out[t] # GatewayError)
        /\ last.out["summary"] # GatewayError =>
              processed[last.id].summary = last.out["summary"]
        /\ last.op = "process_single_email" =>
              \E i \in 1..Len(inbox) :
                 /\ inbox[i].id = last.id
                 /\ pc = IF i < Len(inbox)
                         THEN [kind |-> "process_all", i |-> i + 1]
                         ELSE Idle

\* The categorization and auto-reply calls of the first email failed, its
\* summary is stored, and the loop is on the second email.
C6_Witness ==
    /\ last.op = "process_single_email"
    /\ last.id = "e1"
    /\ last.out["categorization"] = GatewayError
    /\ last.out["auto_reply"] = GatewayError
    /\ DOMAIN processed["e1"] = {"action_items", "summary"}
    /\ pc = [kind |-> "process_all", i |-> 2]

\* C7 as stated: an email that has a processed result keeps having one,
\* under every user action.
C7_ProcessedNeverReturnsToUnprocessed ==
    [][\A e \in DOMAIN processed : e \in DOMAIN processed']_vars

\* C7, amended: an email gets a processed result only at the end of a run
\* on that email (Unprocessed -> Processing -> Processed); a run on an
\* email that has a result (by "Reprocess" or "Process All Emails") keeps
\* it until it is replaced; an email loses its result only by "Clear
\* Processed", which empties the processed-result map.
C7_OnlyClearReturnsToUnprocessed ==
    [][/\ (\E e \in DOMAIN processed : e \notin DOMAIN processed') =>
              (last'.op = "clear_processed" /\ processed' = NoResults)
       /\ \A e \in DOMAIN processed' :
              e \notin DOMAIN processed => (pc # Idle /\ inbox[pc.i].id = e)]_vars

\* "Clear Processed" has emptied the map after e1 had a result (a draft
\* was made from its suggested reply).
C7_Witness ==
    /\ last.op = "clear_processed"
    /\ processed = NoResults
    /\ \E i \in 1..Len(drafts) : drafts[i].id = "draft_e1"

\* C8: a run that has started has written nothing; an interrupted run
\* leaves the processed-result map as it was when the run started; a
\* completed run changes the entry of its email only; and no entry ever
\* holds anything but results of the four tasks (no "Processing" mark).
C8_InterruptedRunLeavesStoreUntouched ==
    [][/\ (pc = Idle /\ pc' # Idle) => processed' = processed
       /\ (pc # Idle /\ last'.op = "interrupt") => processed' = processed
       /\ pc # Idle =>
             \A e \in (DOMAIN processed \cup DOMAIN processed') \ {inbox[pc.i].id} :
                /\ e \in DOMAIN processed
                /\ e \in DOMAIN processed'
                /\ processed'[e] = processed[e]
       /\ \A e \in DOMAIN processed' : DOMAIN processed'[e] \subseteq ResultKeys]_vars

\* "Process All Emails" was interrupted during the run on e2: e1 has its
\* result, e2 has none.
C8_Witness ==
    /\ last.op = "interrupt"
    /\ last.id = "e2"
    /\ pc = Idle
    /\ DOMAIN processed = {"e1"}

\* C9: get_all_prompts() on a prompt document with no template saves the
\* built-in defaults and returns them; on a document that holds templates
\* it returns exactly the stored map and leaves the document unchanged.
C9_GetAllPromptsIsLazy ==
    last.op = "get_all_prompts" =>
        IF DOMAIN last.before = {}
        THEN prompts = default_prompts /\ last.ret = default_prompts
        ELSE prompts = last.before /\ last.ret = last.before

\* The document read held an edited template, and only that one.
C9_Witness ==
    /\ last.op = "get_all_prompts"
    /\ DOMAIN last.before = {"summary"}
    /\ last.ret["summary"] \in PromptTexts
    /\ prompts = last.before

\* C10: while api_key_set is false no run is in progress; a run or a chat
\* call starts only in a state where api_key_set is true; and api_key_set
\* is true only with the handlers constructed.
C10_NoLLMOperationWithoutKey ==
    [][/\ ~api_key_set' => pc' = Idle
       /\ ((pc = Idle /\ pc' # Idle) \/ last'.op = "chat_with_context") => api_key_set
       /\ api_key_set' => handlers']_vars

\* After "Change API Key": the handlers exist, results are stored, and
\* api_key_set is false.
C10_Witness ==
    /\ ~api_key_set
    /\ handlers
    /\ DOMAIN processed # {}
    /\ pc = Idle

\* C11: the step in which reprocess_email(id, prompts) completes on a stored
\* email makes the processed result of id exactly the result of the new
\* run (each field present exactly when its call did not fail, nothing kept
\* of the old result), and leaves the processed result of every other
\* email id, the inbox, the prompt templates and the drafts unchanged.
C11_ReprocessOverwritesWholesale ==
    [][(pc.kind = "reprocess" /\ last'.op = "reprocess_email") =>
          LET id == inbox[pc.i].id
          IN  /\ last'.id = id
              /\ DOMAIN processed' = (DOMAIN processed) \cup {id}
              /\ processed'[id] = process_single_email(inbox[pc.i], last'.out)
              /\ DOMAIN processed'[id] =
                     {ResultKey(t) : t \in {u \in PromptTypes : last'.out[u] # GatewayError}}
              /\ \A e \in (DOMAIN processed) \ {id} : processed'[e] = processed[e]
              /\ inbox' = inbox
              /\ prompts' = prompts
              /\ drafts' = drafts]_vars

\* e1, which had a full result and a draft made from its suggested reply,
\* was reprocessed with only the summary call answered; e2 has its full
\* result.
C11_Witness ==
    /\ last.op = "reprocess_email"
    /\ last.id = "e1"
    /\ DOMAIN processed = {"e1", "e2"}
    /\ DOMAIN processed["e1"] = {"summary"}
    /\ DOMAIN processed["e2"] = ResultKeys
    /\ \E i \in 1..Len(drafts) : drafts[i].id = "draft_e1"
    /\ prompts = default_prompts

\* C12: in every state reached through "Process All Emails", "Reprocess"
\* and "Clear Processed" (runs completed, in progress or interrupted),
\* every key of the processed-result map is the id of an email of the
\* inbox, and the inbox is the one the application started with.
C12_NoOrphanResult ==
    /\ DOMAIN processed \subseteq InboxIds
    /\ InboxIds = {Email1.id, Email2.id}

\* e2 alone has a result, stored by a "Reprocess" of e2, while e1 has none
\* (never processed, or cleared).
C12_Witness ==
    /\ last.op = "reprocess_email"
    /\ last.id = "e2"
    /\ DOMAIN processed = {"e2"}
    /\ pc = Idle

\* C13: get_all_prompts() called right after update_prompt(task_type, text)
\* returns a map of the four task types in which task_type maps to text
\* and each other task type maps to the template it had before the update
\* (the built-in default if the document had none for it), also when the
\* update was the first operation on an empty prompt document; and neither
\* call changes the processed-result map.
C13_UpdateThenGetAllKeepsTheOthers ==
    [][/\ (last.op = "update_prompt" /\ last'.op = "get_all_prompts") =>
             /\ DOMAIN last'.ret = PromptTypes
             /\ last'.ret[last.type] = last.text
             /\ \A t \in PromptTypes \ {last.type} :
                    last'.ret[t] = IF t \in DOMAIN last.before
                                   THEN last.before[t]
                                   ELSE default_prompts[t]
       /\ last'.op \in {"update_prompt", "get_all_prompts"} => processed' = processed]_vars

====
